---- MODULE Spec2Model ----
(***************************************************************************)
(* Model of the invoice / order recognition pipelines of amis_demo:        *)
(*   raw model text -> _extract_json_from_response -> validation           *)
(*   (_validate_and_fix_numbers / _validate_order_data) -> conversion      *)
(*   (_convert_to_invoice_data / _convert_to_order_data) -> job storage.   *)
(*                                                                         *)
(* Texts are sequences of tokens, each token a literal piece of text:      *)
(*   "{"  "}"   the brace characters                                       *)
(*   "m"        the members text of a JSON object ("key": value, ...)      *)
(*   "x"        a piece of prose without braces, backticks or newlines     *)
(*   "nl"       the newline character (the only whitespace)                *)
(*   "fence"    the markdown fence marker (three backticks)                *)
(* Character strings of field values are sequences of one-character        *)
(* strings.                                                                *)
(***************************************************************************)
EXTENDS Integers, Sequences, FiniteSets, TLC

VARIABLES kind, input_type, pc, response_text, members, text, parsed_data,
          raw_data, warnings, aggregate, response, jobs_storage, upload_dir,
          job_id, now, request

vars == <<kind, input_type, pc, response_text, members, text, parsed_data,
          raw_data, warnings, aggregate, response, jobs_storage, upload_dir,
          job_id, now, request>>

\* ------------------------------------------------------------------ bounds
MaxLen == 6
MaxItems == 2

\* ------------------------------------------------------------- text model
Token == {"{", "}", "m", "x", "nl", "fence"}

Texts == UNION {[1..n -> Token] : n \in 0..MaxLen}

IsSpace(c) == c = "nl"

RECURSIVE LStrip(_)
LStrip(s) == IF s # <<>> /\ IsSpace(Head(s)) THEN LStrip(Tail(s)) ELSE s

RECURSIVE RStrip(_)
RStrip(s) ==
  IF s # <<>> /\ IsSpace(s[Len(s)]) THEN RStrip(SubSeq(s, 1, Len(s) - 1)) ELSE s

\* str.strip()
Strip(s) == RStrip(LStrip(s))

\* str.find(c): index of the first occurrence, 0 when there is none
\* (Python: 0-based index, -1 when there is none)
Find(s, c) ==
  IF \E i \in 1..Len(s) : s[i] = c
  THEN CHOOSE i \in 1..Len(s) : s[i] = c /\ \A j \in 1..(i - 1) : s[j] # c
  ELSE 0

\* str.rfind(c): index of the last occurrence, 0 when there is none
RFind(s, c) ==
  IF \E i \in 1..Len(s) : s[i] = c
  THEN CHOOSE i \in 1..Len(s) : s[i] = c /\ \A j \in (i + 1)..Len(s) : s[j] # c
  ELSE 0

\* str.split on the newline character: the lines of s (always at least one line)
RECURSIVE Split(_)
Split(s) ==
  LET i == Find(s, "nl") IN
  IF i = 0 THEN <<s>>
  ELSE <<SubSeq(s, 1, i - 1)>> \o Split(SubSeq(s, i + 1, Len(s)))

\* newline.join(lines)
RECURSIVE Join(_)
Join(lines) ==
  IF lines = <<>> THEN <<>>
  ELSE IF Len(lines) = 1 THEN lines[1]
  ELSE lines[1] \o <<"nl">> \o Join(Tail(lines))

StartsWithFence(s) == s # <<>> /\ s[1] = "fence"

\* a fence removal that drops the first line only
FenceStripFirstOnly(t) ==
  IF StartsWithFence(t)
  THEN LET lines == Split(t) IN
       IF Len(lines) > 2 THEN Join(SubSeq(lines, 2, Len(lines))) ELSE t
  ELSE t

\* the fence removal of _extract_json_from_response
FenceStrip(t) ==
  IF StartsWithFence(t)
  THEN LET lines == Split(t) IN
       IF Len(lines) > 2 THEN Join(SubSeq(lines, 2, Len(lines) - 1)) ELSE t
  ELSE t

\* json.loads on a candidate substring: an object is "{" ws* [members ws*] "}".
\* Result: [ok |-> FALSE] for JSONDecodeError, else whether the object has
\* members.
JsonLoads(s) ==
  LET inner == SubSeq(s, 2, Len(s) - 1)
      body  == SelectSeq(inner, LAMBDA c : ~IsSpace(c))
  IN IF Len(s) >= 2 /\ s[1] = "{" /\ s[Len(s)] = "}" /\ body \in {<<>>, <<"m">>}
     THEN [ok |-> TRUE, has_members |-> body = <<"m">>]
     ELSE [ok |-> FALSE, has_members |-> FALSE]

\* an extraction whose slice stops before the last brace: text[start:end]
extract_json_exclusive_end(rtext) ==
  LET t        == FenceStrip(Strip(rtext))
      start    == Find(t, "{")
      end      == RFind(t, "}")
      json_str == SubSeq(t, start, end - 1)
      parsed   == JsonLoads(json_str)
  IN IF start # 0 /\ end # 0
     THEN IF parsed.ok
          THEN (IF parsed.has_members THEN "object" ELSE "empty")
          ELSE "none"
     ELSE "none"

\* outcome of _extract_json_from_response: "none" (returns None),
\* "empty" (returns {}), "object" (returns the object with the members)
extract_json_from_response(rtext) ==
  LET t        == FenceStrip(Strip(rtext))
      start    == Find(t, "{")
      end      == RFind(t, "}")
      json_str == SubSeq(t, start, end)
      parsed   == JsonLoads(json_str)
  IN IF start # 0 /\ end # 0
     THEN IF parsed.ok
          THEN (IF parsed.has_members THEN "object" ELSE "empty")
          ELSE "none"
     ELSE "none"

\* ------------------------------------------------------------ value model
\* A raw JSON value of a payload key: k is "absent" (key not in the dict),
\* "null", "num" or "str"; s is the character string str(value) of a number
\* or the string itself.
Digit == {"0", "1", "2", "3", "4", "5", "6", "7", "8", "9"}

Absent == [k |-> "absent", s |-> <<>>]
Null == [k |-> "null", s |-> <<>>]
Num(chars) == [k |-> "num", s |-> chars]
Str(chars) == [k |-> "str", s |-> chars]

\* an optional Decimal: None or a number
NoneVal == [none |-> TRUE, v |-> 0]
Some(n) == [none |-> FALSE, v |-> n]

DigitVal(c) ==
  CASE c = "0" -> 0 [] c = "1" -> 1 [] c = "2" -> 2 [] c = "3" -> 3
    [] c = "4" -> 4 [] c = "5" -> 5 [] c = "6" -> 6 [] c = "7" -> 7
    [] c = "8" -> 8 [] c = "9" -> 9

DigitChar(d) ==
  CASE d = 0 -> "0" [] d = 1 -> "1" [] d = 2 -> "2" [] d = 3 -> "3"
    [] d = 4 -> "4" [] d = 5 -> "5" [] d = 6 -> "6" [] d = 7 -> "7"
    [] d = 8 -> "8" [] d = 9 -> "9"

RECURSIVE DigitsToNat(_)
DigitsToNat(s) ==
  IF s = <<>> THEN 0
  ELSE 10 * DigitsToNat(SubSeq(s, 1, Len(s) - 1)) + DigitVal(s[Len(s)])

RECURSIVE NatToDigits(_)
NatToDigits(n) ==
  IF n < 10 THEN <<DigitChar(n)>>
  ELSE NatToDigits(n \div 10) \o <<DigitChar(n % 10)>>

Abs(n) == IF n < 0 THEN -n ELSE n

\* str(Decimal) of an integral Decimal
DecimalStr(n) == IF n < 0 THEN <<"-">> \o NatToDigits(-n) ELSE NatToDigits(n)

\* str(value): None prints as "None"
PyStr(v) == IF v.k \in {"null", "absent"} THEN <<"N", "o", "n", "e">> ELSE v.s

\* s.replace(c, "")
Remove(s, c) == SelectSeq(s, LAMBDA ch : ch # c)

\* the digit characters of a string, in order
DigitsOf(s) == SelectSeq(s, LAMBDA ch : ch \in Digit)

\* Decimal(s): an optional minus sign and one or more digits; anything else
\* raises InvalidOperation ([ok |-> FALSE])
DecimalOf(s) ==
  LET neg  == s # <<>> /\ s[1] = "-"
      body == IF neg THEN Tail(s) ELSE s
  IN IF body # <<>> /\ \A i \in 1..Len(body) : body[i] \in Digit
     THEN [ok |-> TRUE, v |-> IF neg THEN -DigitsToNat(body) ELSE DigitsToNat(body)]
     ELSE [ok |-> FALSE, v |-> 0]

\* Decimal(str(value).replace(",", ""))
ParseDecimal(v) == DecimalOf(Remove(PyStr(v), ","))

\* dict.get(key, 0): a missing key reads as the number 0
GetOrZero(v) == IF v.k = "absent" THEN Num(<<"0">>) ELSE v

\* dict.get(key): a missing key reads as None
GetOrNone(v) == IF v.k = "absent" THEN Null ELSE v

\* dict.get(key): a missing key reads as None whatever the default
GetIgnoringDefault(v, default) == IF v.k = "absent" THEN Null ELSE v

\* dict.get(key, default): a missing key reads as the default
GetOr(v, default) == IF v.k = "absent" THEN default ELSE v

\* truth value of a raw value: None, "", 0 and a missing key are false
Truthy(v) ==
  \/ v.k = "str" /\ v.s # <<>>
  \/ v.k = "num" /\ (~DecimalOf(v.s).ok \/ DecimalOf(v.s).v # 0)

\* truth value of an optional Decimal: None and 0 are false
TruthyDec(d) == ~d.none /\ d.v # 0

\* a warning string: its message kind and the number it names (line index or
\* digit count; 0 when it names none)
Warning(w, n) == [w |-> w, n |-> n]

\* a calendar date; NoDate stands for None
Date(y, m, d) == [y |-> y, m |-> m, d |-> d]
NoDate == Date(0, 0, 0)

\* datetime.now().date(): the day the clock of the host reads
Today == now

\* s.split(sep): the parts of s between the occurrences of sep
RECURSIVE SplitOn(_, _)
SplitOn(s, sep) ==
  LET i == Find(s, sep) IN
  IF i = 0 THEN <<s>>
  ELSE <<SubSeq(s, 1, i - 1)>> \o SplitOn(SubSeq(s, i + 1, Len(s)), sep)

AllDigits(s) == \A i \in 1..Len(s) : s[i] \in Digit

IsLeap(y) == (y % 4 = 0 /\ y % 100 # 0) \/ y % 400 = 0

DaysInMonth(y, m) ==
  IF m = 2 THEN (IF IsLeap(y) THEN 29 ELSE 28)
  ELSE IF m \in {4, 6, 9, 11} THEN 30 ELSE 31

\* datetime.strptime(s, "%Y-%m-%d").date(): a year of four digits, a month
\* and a day of one or two digits each, joined by "-", that name a day of
\* the calendar; anything else raises ValueError ([ok |-> FALSE])
Strptime(s) ==
  LET p     == SplitOn(s, "-")
      shape == /\ Len(p) = 3
               /\ Len(p[1]) = 4 /\ Len(p[2]) \in 1..2 /\ Len(p[3]) \in 1..2
               /\ AllDigits(p[1]) /\ AllDigits(p[2]) /\ AllDigits(p[3])
      y     == DigitsToNat(p[1])
      m     == DigitsToNat(p[2])
      d     == DigitsToNat(p[3])
  IN IF shape /\ y >= 1 /\ m \in 1..12 /\ d \in 1..DaysInMonth(y, m)
     THEN [ok |-> TRUE, v |-> Date(y, m, d)]
     ELSE [ok |-> FALSE, v |-> NoDate]

\* tolerances, in hundredths of a currency unit: Decimal("0.01"), Decimal("1")
InvoiceToleranceHundredths == 1
OrderToleranceHundredths == 100

TaxCodeMinLen == 10
TaxCodeMaxLen == 13
PhoneMinLen == 10
PhoneMaxLen == 11

\* --------------------------------------------------------- invoice pipeline
\* Raw payload (the dict parsed from the model's JSON):
\*   seller_tax_code, buyer_tax_code, total_amount_without_vat,
\*   total_vat_amount, total_amount : raw values
\*   items : [k |-> "absent" | "null" | "list", v |-> sequence of raw items]
\*   needs_review : "absent" | "null" | "true" | "false"
\*   review_notes : sequence of note strings, <<>> for None / missing
\*   inv_series, inv_date, payment_method_name, buyer_phone_number : raw values
\* A raw item is a dict (dict = TRUE) with quantity, unit_price, amount and
\* vat_rate (quantity, unit_price and total_price for orders), or a JSON
\* value that is not an object.  Keys the model does not name are absent.

\* a cleaning that keeps the text as given and checks no length
clean_tax_code_keep_text(tax_code) ==
  [value    |-> IF Truthy(tax_code) THEN Str(PyStr(tax_code)) ELSE Null,
   warnings |-> <<>>]

\* clean_tax_code: the cleaned value and the warnings it appends
clean_tax_code(tax_code) ==
  IF ~Truthy(tax_code) THEN [value |-> Null, warnings |-> <<>>]
  ELSE LET cleaned == DigitsOf(PyStr(tax_code)) IN
       [value    |-> IF cleaned # <<>> THEN Str(cleaned) ELSE Null,
        warnings |-> IF Len(cleaned) < TaxCodeMinLen \/ Len(cleaned) > TaxCodeMaxLen
                     THEN <<Warning("invalid tax code", Len(cleaned))>>
                     ELSE <<>>]

\* body of the item loop of _validate_and_fix_numbers for the item at idx
validate_invoice_item(item, idx) ==
  LET quantity   == ParseDecimal(GetOrZero(item.quantity))
      unit_price == ParseDecimal(GetOrZero(item.unit_price))
      amount     == ParseDecimal(GetOrZero(item.amount))
      expected_amount == quantity.v * unit_price.v
  IN IF ~item.dict \/ ~quantity.ok \/ ~unit_price.ok \/ ~amount.ok
     THEN [item |-> item, warnings |-> <<Warning("item validate error", idx)>>]
     ELSE IF Abs(expected_amount - amount.v) * 100 > InvoiceToleranceHundredths
     THEN [item     |-> [item EXCEPT !.amount = Str(DecimalStr(expected_amount))],
           warnings |-> <<Warning("item amount mismatch", idx)>>]
     ELSE [item |-> item, warnings |-> <<>>]

\* the effect of one pass of the loop, r, followed by the later passes, rest
invoice_loop_step(r, rest) ==
  [items |-> <<r.item>> \o rest.items, warnings |-> r.warnings \o rest.warnings]

\* the item loop of _validate_and_fix_numbers from the item at idx on
RECURSIVE validate_invoice_items(_, _)
validate_invoice_items(items, idx) ==
  IF idx > Len(items) THEN [items |-> <<>>, warnings |-> <<>>]
  ELSE invoice_loop_step(validate_invoice_item(items[idx], idx),
                         validate_invoice_items(items, idx + 1))

\* the totals check of _validate_and_fix_numbers: the warnings it appends
validate_totals(raw) ==
  LET total_without_vat == ParseDecimal(GetOrZero(raw.total_amount_without_vat))
      total_vat         == ParseDecimal(GetOrZero(raw.total_vat_amount))
      total_amount      == ParseDecimal(GetOrZero(raw.total_amount))
      expected_total    == total_without_vat.v + total_vat.v
  IN IF ~total_without_vat.ok \/ ~total_vat.ok \/ ~total_amount.ok
     THEN <<Warning("totals validate error", 0)>>
     ELSE IF Abs(expected_total - total_amount.v) * 100 > InvoiceToleranceHundredths
     THEN <<Warning("totals mismatch", 0)>>
     ELSE <<>>

\* a validation that appends the collision note to the notes of the payload
validate_and_fix_numbers_append_note(raw) ==
  LET seller == clean_tax_code(raw.seller_tax_code)
      buyer  == clean_tax_code(raw.buyer_tax_code)
      same   == seller.value.k = "str" /\ buyer.value.k = "str"
                /\ seller.value.s = buyer.value.s
      w1     == seller.warnings \o buyer.warnings
                \o (IF same THEN <<Warning("seller tax code equals buyer tax code", 0)>>
                    ELSE <<>>)
      d1     == [raw EXCEPT !.needs_review = IF same THEN "true" ELSE @,
                            !.review_notes = IF same THEN @ \o <<"same tax code">> ELSE @,
                            !.seller_tax_code = seller.value,
                            !.buyer_tax_code = buyer.value]
      its    == validate_invoice_items(IF raw.items.k = "list" THEN raw.items.v ELSE <<>>, 1)
      d2     == [d1 EXCEPT !.items = IF @.k = "list" THEN [k |-> "list", v |-> its.items] ELSE @]
  IN IF raw.items.k = "null"
     THEN [raised |-> TRUE, raw_data |-> d1, warnings |-> w1]
     ELSE [raised |-> FALSE, raw_data |-> d2,
           warnings |-> w1 \o its.warnings \o validate_totals(d2)]

\* _validate_and_fix_numbers: raised = TRUE when iterating the items raises
\* (items is null); warnings is the local list, which is only logged
validate_and_fix_numbers(raw) ==
  LET seller == clean_tax_code(raw.seller_tax_code)
      buyer  == clean_tax_code(raw.buyer_tax_code)
      same   == seller.value.k = "str" /\ buyer.value.k = "str"
                /\ seller.value.s = buyer.value.s
      w1     == seller.warnings \o buyer.warnings
                \o (IF same THEN <<Warning("seller tax code equals buyer tax code", 0)>>
                    ELSE <<>>)
      d1     == [raw EXCEPT !.needs_review = IF same THEN "true" ELSE @,
                            !.review_notes = IF same THEN <<"same tax code">> ELSE @,
                            !.seller_tax_code = seller.value,
                            !.buyer_tax_code = buyer.value]
      its    == validate_invoice_items(IF raw.items.k = "list" THEN raw.items.v ELSE <<>>, 1)
      d2     == [d1 EXCEPT !.items = IF @.k = "list" THEN [k |-> "list", v |-> its.items] ELSE @]
  IN IF raw.items.k = "null"
     THEN [raised |-> TRUE, raw_data |-> d1, warnings |-> w1]
     ELSE [raised |-> FALSE, raw_data |-> d2,
           warnings |-> w1 \o its.warnings \o validate_totals(d2)]

\* safe_decimal(value, 0) of _convert_to_invoice_data
safe_decimal_invoice(v) ==
  LET d == ParseDecimal(v) IN IF d.ok THEN d.v ELSE 0

\* an item loop that stops at the first item it cannot build
RECURSIVE convert_invoice_items_abort(_, _)
convert_invoice_items_abort(items, idx) ==
  IF idx > Len(items) THEN <<>>
  ELSE LET item_data  == items[idx]
           quantity   == ParseDecimal(GetOrZero(item_data.quantity))
           unit_price == ParseDecimal(GetOrZero(item_data.unit_price))
           amount     == ParseDecimal(GetOrZero(item_data.amount))
       IN IF item_data.dict /\ quantity.ok /\ unit_price.ok /\ amount.ok
          THEN <<[line_number |-> idx, quantity |-> quantity.v,
                  unit_price |-> unit_price.v, amount |-> amount.v,
                  vat_rate_name |-> GetOr(item_data.vat_rate, Str(<<"10%">>))]>>
               \o convert_invoice_items_abort(items, idx + 1)
          ELSE <<>>

\* body of the item loop of _convert_to_invoice_data: the InvoiceDetailItem
\* built for the item at idx, or nothing when building it raises
RECURSIVE convert_invoice_items(_, _)
convert_invoice_items(items, idx) ==
  IF idx > Len(items) THEN <<>>
  ELSE LET item_data  == items[idx]
           quantity   == ParseDecimal(GetOrZero(item_data.quantity))
           unit_price == ParseDecimal(GetOrZero(item_data.unit_price))
           amount     == ParseDecimal(GetOrZero(item_data.amount))
           rest       == convert_invoice_items(items, idx + 1)
       IN (IF item_data.dict /\ quantity.ok /\ unit_price.ok /\ amount.ok
           THEN <<[line_number |-> idx, quantity |-> quantity.v,
                   unit_price |-> unit_price.v, amount |-> amount.v,
                   vat_rate_name |-> GetOr(item_data.vat_rate, Str(<<"10%">>))]>>
           ELSE <<>>) \o rest

\* the date parsing of _convert_to_invoice_data: the current date when
\* strptime raises (a value that is not a string raises TypeError)
parse_inv_date(inv_date) ==
  LET inv_date_str == GetOr(inv_date, Str(<<>>)) IN
  IF inv_date_str.k = "str" /\ Strptime(inv_date_str.s).ok
  THEN Strptime(inv_date_str.s).v
  ELSE Today

\* _convert_to_invoice_data: raised = TRUE when InvoiceData rejects
\* needs_review = None
convert_to_invoice_data(raw) ==
  [raised |-> raw.needs_review = "null" \/ raw.items.k = "null",
   data   |-> [seller_tax_code |-> GetOrNone(raw.seller_tax_code),
               buyer_tax_code |-> GetOrNone(raw.buyer_tax_code),
               original_invoice_detail |->
                 convert_invoice_items(IF raw.items.k = "list" THEN raw.items.v ELSE <<>>, 1),
               total_amount_without_vat |-> safe_decimal_invoice(GetOrZero(raw.total_amount_without_vat)),
               total_vat_amount |-> safe_decimal_invoice(GetOrZero(raw.total_vat_amount)),
               total_amount |-> safe_decimal_invoice(GetOrZero(raw.total_amount)),
               inv_series |-> GetOr(raw.inv_series, Str(<<>>)),
               inv_date |-> parse_inv_date(raw.inv_date),
               payment_method_name |-> GetOr(raw.payment_method_name, Str(<<"TM/CK">>)),
               buyer_phone_number |-> GetOrNone(raw.buyer_phone_number),
               needs_review |-> raw.needs_review = "true",
               review_notes |-> raw.review_notes]]

\* ----------------------------------------------------------- order pipeline
\* Raw order payload: customer_name, customer_phone, total_amount,
\* customer_tax_code, order_date (raw values), items, needs_review,
\* review_notes as for invoices.

\* get_safe_decimal / safe_decimal(value, None) of the order service:
\* None for None, "" and unparsable text, else the Decimal
get_safe_decimal(value) ==
  IF value.k \in {"absent", "null"} \/ (value.k = "str" /\ value.s = <<>>)
  THEN NoneVal
  ELSE LET clean_val == Remove(Remove(PyStr(value), ","), " ")
           d         == DecimalOf(clean_val)
       IN IF clean_val = <<>> THEN NoneVal
          ELSE IF d.ok THEN Some(d.v) ELSE NoneVal

\* the guard of the code: "if quantity and unit_price and total_price"
AllTruthy(quantity, unit_price, total_price) ==
  TruthyDec(quantity) /\ TruthyDec(unit_price) /\ TruthyDec(total_price)

\* body of the item loop of _validate_order_data for the item at idx
validate_order_item(item, idx) ==
  LET quantity    == get_safe_decimal(GetOrZero(item.quantity))
      unit_price  == get_safe_decimal(item.unit_price)
      total_price == get_safe_decimal(item.total_price)
      expected_total == quantity.v * unit_price.v
      w_qty == IF TruthyDec(quantity) /\ quantity.v <= 0
               THEN <<Warning("item quantity <= 0", idx)>> ELSE <<>>
      fix   == AllTruthy(quantity, unit_price, total_price)
               /\ Abs(expected_total - total_price.v) * 100 > OrderToleranceHundredths
  IN IF ~item.dict
     THEN [item |-> item, warnings |-> <<Warning("item validate error", idx)>>,
           needs_review |-> FALSE]
     ELSE [item |-> IF fix THEN [item EXCEPT !.total_price = Str(DecimalStr(expected_total))]
                    ELSE item,
           warnings |-> w_qty \o (IF fix THEN <<Warning("item total mismatch", idx)>> ELSE <<>>),
           needs_review |-> w_qty # <<>>]

\* a loop in which each later pass sets needs_review anew
order_loop_step_flag_reset(r, rest) ==
  [items |-> <<r.item>> \o rest.items,
   warnings |-> r.warnings \o rest.warnings,
   needs_review |-> rest.needs_review]

\* the effect of one pass of the loop, r, followed by the later passes, rest
order_loop_step(r, rest) ==
  [items |-> <<r.item>> \o rest.items,
   warnings |-> r.warnings \o rest.warnings,
   needs_review |-> r.needs_review \/ rest.needs_review]

\* the item loop of _validate_order_data from the item at idx on
RECURSIVE validate_order_items(_, _)
validate_order_items(items, idx) ==
  IF idx > Len(items) THEN [items |-> <<>>, warnings |-> <<>>, needs_review |-> FALSE]
  ELSE order_loop_step(validate_order_item(items[idx], idx),
                       validate_order_items(items, idx + 1))

\* a validation that notes the first missing customer field only
validate_order_data_one_note(raw) ==
  LET phone         == raw.customer_phone
      cleaned_phone == DigitsOf(PyStr(phone))
      bad_phone     == Truthy(phone) /\ (Len(cleaned_phone) < PhoneMinLen
                                         \/ Len(cleaned_phone) > PhoneMaxLen)
      w1  == IF bad_phone THEN <<Warning("invalid phone", Len(cleaned_phone))>> ELSE <<>>
      d1  == [raw EXCEPT !.needs_review = IF bad_phone THEN "true" ELSE @,
                         !.customer_phone =
                           IF Truthy(phone)
                           THEN (IF cleaned_phone # <<>> THEN Str(cleaned_phone) ELSE Null)
                           ELSE @]
      its == validate_order_items(IF raw.items.k = "list" THEN raw.items.v ELSE <<>>, 1)
      d2  == [d1 EXCEPT !.items = IF @.k = "list" THEN [k |-> "list", v |-> its.items] ELSE @,
                        !.needs_review = IF its.needs_review THEN "true" ELSE @]
      no_name  == ~Truthy(d2.customer_name)
      no_phone == ~Truthy(d2.customer_phone)
      d3  == IF no_name \/ no_phone
             THEN [d2 EXCEPT !.needs_review = "true",
                             !.review_notes =
                               (IF no_name THEN <<"missing customer name">>
                                ELSE <<"missing phone number">>)]
             ELSE d2
  IN IF raw.items.k = "null"
     THEN [raised |-> TRUE, raw_data |-> d1, warnings |-> w1]
     ELSE [raised |-> FALSE, raw_data |-> d3, warnings |-> w1 \o its.warnings]

\* _validate_order_data: raised = TRUE when iterating the items raises
validate_order_data(raw) ==
  LET phone         == raw.customer_phone
      cleaned_phone == DigitsOf(PyStr(phone))
      bad_phone     == Truthy(phone) /\ (Len(cleaned_phone) < PhoneMinLen
                                         \/ Len(cleaned_phone) > PhoneMaxLen)
      w1  == IF bad_phone THEN <<Warning("invalid phone", Len(cleaned_phone))>> ELSE <<>>
      d1  == [raw EXCEPT !.needs_review = IF bad_phone THEN "true" ELSE @,
                         !.customer_phone =
                           IF Truthy(phone)
                           THEN (IF cleaned_phone # <<>> THEN Str(cleaned_phone) ELSE Null)
                           ELSE @]
      its == validate_order_items(IF raw.items.k = "list" THEN raw.items.v ELSE <<>>, 1)
      d2  == [d1 EXCEPT !.items = IF @.k = "list" THEN [k |-> "list", v |-> its.items] ELSE @,
                        !.needs_review = IF its.needs_review THEN "true" ELSE @]
      no_name  == ~Truthy(d2.customer_name)
      no_phone == ~Truthy(d2.customer_phone)
      d3  == IF no_name \/ no_phone
             THEN [d2 EXCEPT !.needs_review = "true",
                             !.review_notes =
                               (IF no_name THEN <<"missing customer name">> ELSE <<>>)
                               \o (IF no_phone THEN <<"missing phone number">> ELSE <<>>)]
             ELSE d2
  IN IF raw.items.k = "null"
     THEN [raised |-> TRUE, raw_data |-> d1, warnings |-> w1]
     ELSE [raised |-> FALSE, raw_data |-> d3, warnings |-> w1 \o its.warnings]

\* a or b of two dict.get results: the first when it is truthy, else the second
FirstTruthy(a, b) == IF Truthy(a) THEN a ELSE GetOrNone(b)

\* the value pydantic stores in the int field line_number: an integer, or a
\* validation error ([ok |-> FALSE]) for None and for text that is no integer
IntField(v) ==
  IF v.k \in {"num", "str"} /\ DecimalOf(v.s).ok
  THEN [ok |-> TRUE, v |-> DecimalOf(v.s).v]
  ELSE [ok |-> FALSE, v |-> 0]

\* the fields OrderItemData declares; a keyword that is not one of them is
\* ignored by the model class
OrderItemFields == {"line_number", "quantity", "unit_price", "total_price"}

\* OrderItemData(**kw): the declared fields of the keywords
OrderItemData(kw) == [f \in OrderItemFields |-> kw[f]]

\* item loop of _convert_to_order_data: the OrderItemData built for the item
\* at idx, or nothing when building it raises
RECURSIVE convert_order_items(_, _)
convert_order_items(items, idx) ==
  IF idx > Len(items) THEN <<>>
  ELSE LET item_dict    == items[idx]
           q            == get_safe_decimal(item_dict.quantity)
           quantity_val == IF q.none THEN Some(0) ELSE q
           product_code == FirstTruthy(item_dict.product_code, item_dict.code)
           unit         == FirstTruthy(item_dict.unit, item_dict.uom)
           line_number  == IF item_dict.line_number.k = "absent"
                           THEN [ok |-> TRUE, v |-> idx]
                           ELSE IntField(item_dict.line_number)
           rest         == convert_order_items(items, idx + 1)
       IN (IF item_dict.dict /\ line_number.ok
           THEN <<OrderItemData([line_number |-> line_number.v,
                                 product_code |-> product_code,
                                 quantity |-> quantity_val,
                                 unit |-> unit,
                                 unit_price |-> get_safe_decimal(item_dict.unit_price),
                                 total_price |-> get_safe_decimal(item_dict.total_price)])>>
           ELSE <<>>) \o rest

\* a date parsing that falls back to the current date, as invoices do
parse_order_date_now(order_date) ==
  IF Truthy(order_date) /\ order_date.k = "str" /\ Strptime(order_date.s).ok
  THEN Strptime(order_date.s).v
  ELSE Today

\* the date parsing of _convert_to_order_data: None unless the value is a
\* non-empty string that strptime accepts
parse_order_date(order_date) ==
  IF Truthy(order_date) /\ order_date.k = "str" /\ Strptime(order_date.s).ok
  THEN Strptime(order_date.s).v
  ELSE NoDate

\* _convert_to_order_data: raised = TRUE when OrderData rejects
\* needs_review = None
convert_to_order_data(raw) ==
  [raised |-> raw.needs_review = "null" \/ raw.items.k = "null",
   data   |-> [customer_name |-> GetOrNone(raw.customer_name),
               customer_phone |-> GetOrNone(raw.customer_phone),
               items |-> convert_order_items(IF raw.items.k = "list" THEN raw.items.v ELSE <<>>, 1),
               total_amount |-> get_safe_decimal(raw.total_amount),
               customer_tax_code |-> GetOrNone(raw.customer_tax_code),
               order_date |-> parse_order_date(raw.order_date),
               needs_review |-> raw.needs_review = "true",
               review_notes |-> raw.review_notes]]

\* ------------------------------------------------------------------ inputs
TaxA == <<"0", "1", "2", "3", "4", "5", "6", "7", "8", "9">>
TaxADashed == <<"0", "1", "2", "3", "4", "-", "5", "6", "7", "8", "9">>
TaxB == <<"9", "8", "7", "6", "5", "4", "3", "2", "1", "0">>
TaxShort == <<"1", "2", "3">>
PhoneOk == <<"0", "9", "0", " ", "1", "2", "3", "4", "5", "6", "7">>
PhoneShort == <<"0", "9", "0">>
PhoneNoDigits == <<"x">>

\* "1.000.000" followed by the currency sign of the dong
Grouped == <<"1", ".", "0", "0", "0", ".", "0", "0", "0", "dong">>

\* date strings: zero-padded, not padded, not a day of the calendar, and
\* written day/month/year
DateIso == <<"2", "0", "2", "4", "-", "0", "1", "-", "0", "5">>
DateUnpadded == <<"2", "0", "2", "4", "-", "1", "-", "5">>
DateFeb30 == <<"2", "0", "2", "4", "-", "0", "2", "-", "3", "0">>
DateSlashes == <<"0", "5", "/", "0", "1", "/", "2", "0", "2", "4">>

DateVals ==
  {Absent, Null, Num(<<"2", "0", "2", "4">>), Str(<<>>), Str(DateIso),
   Str(DateUnpadded), Str(DateFeb30), Str(DateSlashes)}

ItemLists(S) == UNION {[1..n -> S] : n \in 0..MaxItems}

ItemsVals(S) ==
  {[k |-> "absent", v |-> <<>>], [k |-> "null", v |-> <<>>]}
  \cup {[k |-> "list", v |-> l] : l \in ItemLists(S)}

NotADict ==
  [dict |-> FALSE, quantity |-> Absent, unit_price |-> Absent, amount |-> Absent,
   vat_rate |-> Absent]

InvoiceItemVals ==
  [dict : {TRUE}, quantity : {Num(<<"2">>)}, unit_price : {Num(<<"5">>)},
   amount : {Num(<<"1", "0">>), Num(<<"0">>), Absent}, vat_rate : {Str(<<"8%">>)}]
  \cup {[dict |-> TRUE, quantity |-> Null, unit_price |-> Num(<<"5">>),
         amount |-> Num(<<"1", "0">>), vat_rate |-> Str(<<"8%">>)],
        NotADict}

\* an invoice line that passes every check, one with no key at all, and one
\* whose amount is written with grouping separators and a currency sign
SampleInvoiceItem ==
  [dict |-> TRUE, quantity |-> Num(<<"2">>), unit_price |-> Num(<<"5">>),
   amount |-> Num(<<"1", "0">>), vat_rate |-> Str(<<"8%">>)]
BlankInvoiceItem ==
  [dict |-> TRUE, quantity |-> Absent, unit_price |-> Absent, amount |-> Absent,
   vat_rate |-> Absent]
GroupedInvoiceItem == [SampleInvoiceItem EXCEPT !.amount = Str(Grouped)]

\* payloads that vary the tax codes, the lines, the grand total and the
\* review fields
InvoiceAmountPayloads ==
  [seller_tax_code : {Null, Str(TaxA), Str(TaxShort)},
   buyer_tax_code : {Null, Str(TaxA), Str(TaxADashed), Str(TaxB)},
   items : ItemsVals(InvoiceItemVals),
   total_amount_without_vat : {Str(<<"1", ",", "0", "0", "0">>)},
   total_vat_amount : {Num(<<"1", "0", "0">>)},
   total_amount : {Num(<<"1", "1", "0", "0">>), Num(<<"1", "2", "0", "0">>), Null, Absent},
   inv_series : {Str(<<"C">>)},
   inv_date : {Str(DateIso)},
   payment_method_name : {Str(<<"CK">>)},
   buyer_phone_number : {Absent},
   needs_review : {"absent", "null", "true", "false"},
   review_notes : {<<>>, <<"note of the model">>}]

\* payloads that vary the header fields and the way amounts are written
InvoiceHeaderPayloads ==
  [seller_tax_code : {Str(TaxA)},
   buyer_tax_code : {Str(TaxB)},
   items : {[k |-> "absent", v |-> <<>>],
            [k |-> "list", v |-> <<SampleInvoiceItem>>],
            [k |-> "list", v |-> <<BlankInvoiceItem>>],
            [k |-> "list", v |-> <<GroupedInvoiceItem, SampleInvoiceItem>>]},
   total_amount_without_vat : {Str(<<"1", ",", "0", "0", "0">>)},
   total_vat_amount : {Num(<<"1", "0", "0">>)},
   total_amount : {Num(<<"1", "1", "0", "0">>), Str(Grouped)},
   inv_series : {Absent, Str(<<"C">>)},
   inv_date : DateVals,
   payment_method_name : {Absent, Str(<<"CK">>)},
   buyer_phone_number : {Absent, Str(PhoneOk)},
   needs_review : {"false"},
   review_notes : {<<>>}]

\* the payload with none of the keys above
EmptyInvoice ==
  [seller_tax_code |-> Absent, buyer_tax_code |-> Absent,
   items |-> [k |-> "absent", v |-> <<>>],
   total_amount_without_vat |-> Absent, total_vat_amount |-> Absent,
   total_amount |-> Absent, inv_series |-> Absent, inv_date |-> Absent,
   payment_method_name |-> Absent, buyer_phone_number |-> Absent,
   needs_review |-> "absent", review_notes |-> <<>>]

InvoicePayloads == InvoiceAmountPayloads \cup InvoiceHeaderPayloads \cup {EmptyInvoice}

NotAnOrderDict ==
  [dict |-> FALSE, quantity |-> Absent, unit_price |-> Absent, total_price |-> Absent,
   line_number |-> Absent, product_code |-> Absent, code |-> Absent,
   unit |-> Absent, uom |-> Absent]

OrderItemVals ==
  [dict : {TRUE}, quantity : {Num(<<"2">>), Num(<<"-", "2">>)}, unit_price : {Num(<<"5">>)},
   total_price : {Num(<<"1", "0">>), Num(<<"0">>), Num(<<"1", "5">>)},
   line_number : {Absent}, product_code : {Absent}, code : {Absent},
   unit : {Absent}, uom : {Absent}]
  \cup {[NotAnOrderDict EXCEPT !.dict = TRUE, !.quantity = Num(<<"2">>),
                               !.unit_price = Num(<<"5">>),
                               !.total_price = Num(<<"1", "1">>)],
        [NotAnOrderDict EXCEPT !.dict = TRUE, !.quantity = Null, !.unit_price = Null,
                               !.total_price = Num(<<"1", "0">>)],
        NotAnOrderDict}

SampleOrderItem ==
  [NotAnOrderDict EXCEPT !.dict = TRUE, !.quantity = Num(<<"2">>),
                         !.unit_price = Num(<<"5">>), !.total_price = Num(<<"1", "0">>)]
BlankOrderItem == [NotAnOrderDict EXCEPT !.dict = TRUE]

\* order lines that carry a product code and a unit, under the keys
\* product_code and unit, and under the keys code and uom
CodedOrderItem ==
  [SampleOrderItem EXCEPT !.product_code = Str(<<"P", "1">>), !.unit = Str(<<"k", "g">>)]
AliasCodedOrderItem ==
  [SampleOrderItem EXCEPT !.code = Str(<<"P", "2">>), !.uom = Str(<<"b", "o", "x">>)]
GroupedOrderItem == [SampleOrderItem EXCEPT !.total_price = Str(Grouped)]

\* payloads that vary the customer, the lines and the review fields
OrderAmountPayloads ==
  [customer_name : {Null, Str(<<"A">>)},
   customer_phone : {Null, Str(PhoneOk), Str(PhoneShort), Str(PhoneNoDigits)},
   items : ItemsVals(OrderItemVals),
   total_amount : {Num(<<"1", "0">>)},
   customer_tax_code : {Absent},
   order_date : {Str(DateIso)},
   needs_review : {"absent", "null", "true", "false"},
   review_notes : {<<>>, <<"note of the model">>}]

\* payloads that vary the header fields and the way amounts are written
OrderHeaderPayloads ==
  [customer_name : {Str(<<"A">>)},
   customer_phone : {Str(PhoneOk)},
   items : {[k |-> "absent", v |-> <<>>],
            [k |-> "list", v |-> <<SampleOrderItem>>],
            [k |-> "list", v |-> <<BlankOrderItem>>],
            [k |-> "list", v |-> <<GroupedOrderItem, SampleOrderItem>>],
            [k |-> "list", v |-> <<CodedOrderItem, AliasCodedOrderItem>>]},
   total_amount : {Num(<<"1", "0">>), Str(Grouped), Absent},
   customer_tax_code : {Absent, Str(TaxADashed)},
   order_date : DateVals,
   needs_review : {"false"},
   review_notes : {<<>>}]

\* the payload with none of the keys above
EmptyOrder ==
  [customer_name |-> Absent, customer_phone |-> Absent,
   items |-> [k |-> "absent", v |-> <<>>], total_amount |-> Absent,
   customer_tax_code |-> Absent, order_date |-> Absent,
   needs_review |-> "absent", review_notes |-> <<>>]

OrderPayloads == OrderAmountPayloads \cup OrderHeaderPayloads \cup {EmptyOrder}

Kinds == {"invoice", "order"}

Payloads(kd) == IF kd = "invoice" THEN InvoicePayloads ELSE OrderPayloads
EmptyPayload(kd) == IF kd = "invoice" THEN EmptyInvoice ELSE EmptyOrder

\* a payload that passes every check
SamplePayload(kd) ==
  IF kd = "invoice"
  THEN [seller_tax_code |-> Str(TaxA), buyer_tax_code |-> Str(TaxB),
        items |-> [k |-> "list", v |-> <<SampleInvoiceItem>>],
        total_amount_without_vat |-> Str(<<"1", ",", "0", "0", "0">>),
        total_vat_amount |-> Num(<<"1", "0", "0">>),
        total_amount |-> Num(<<"1", "1", "0", "0">>),
        inv_series |-> Str(<<"C">>), inv_date |-> Str(DateIso),
        payment_method_name |-> Str(<<"CK">>), buyer_phone_number |-> Absent,
        needs_review |-> "false", review_notes |-> <<>>]
  ELSE [customer_name |-> Str(<<"A">>), customer_phone |-> Str(PhoneOk),
        items |-> [k |-> "list", v |-> <<SampleOrderItem>>],
        total_amount |-> Num(<<"1", "0">>),
        customer_tax_code |-> Absent, order_date |-> Str(DateIso),
        needs_review |-> "false", review_notes |-> <<>>]

BareObject == <<"{", "m", "}">>
FencedObject == <<"fence", "x", "nl", "{", "m", "}", "nl", "fence">>
PipelineTexts ==
  {FencedObject, <<"{", "}">>, <<"x">>, <<"x", "{", "m", "}", "x">>,
   <<"fence", "nl", "{", "}", "nl", "fence">>, <<"{", "m">>}

\* the days the clock reads: the day the service starts and the day after
FirstDay == Date(2026, 11, 5)
NextDay == Date(2026, 11, 6)

\* an identifier generator that hands out the identifier of the last request
\* again
generate_job_id_reused == IF job_id = 0 THEN 1 ELSE job_id

\* generate_job_id: an identifier no earlier request was given; the
\* identifiers are numbered in the order of their requests
generate_job_id == job_id + 1

\* no store operation has been requested yet
NoRequest == [op |-> "none", job_id |-> 0, http |-> 0]

\* ----------------------------------------------------------------- actions
\* the raw response of the model call of the run: its text, and the members
\* of the object the text holds
RawResponse == [text |-> response_text, members |-> members]

\* the local variable of a run that has built no aggregate yet: None
NoAggregate == [none |-> TRUE]

NoResponse == [http |-> 0, success |-> FALSE, status |-> "none", error |-> "none"]

Init ==
  /\ kind \in Kinds
  /\ pc = "start"
  /\ \/ /\ input_type = "text"
        /\ response_text = BareObject
        /\ members \in Payloads(kind)
     \/ /\ input_type \in {"file", "text"}
        /\ response_text \in PipelineTexts \cup {BareObject}
        /\ members = SamplePayload(kind)
  /\ text = <<>>
  /\ parsed_data = [status |-> "unset", data |-> EmptyPayload(kind)]
  /\ raw_data = EmptyPayload(kind)
  /\ warnings = <<>>
  /\ aggregate = NoAggregate
  /\ response = NoResponse
  /\ jobs_storage = {}
  /\ upload_dir = {}
  /\ job_id = 0
  /\ now = FirstDay
  /\ request = NoRequest

\* the status the routes report for a run that produced no aggregate
FailedStatus == IF kind = "invoice" THEN "failed" ELSE "error"

\* the routes up to the model call: an upload is checked and saved under the
\* new job id
ReceiveRequest ==
  /\ pc = "start"
  /\ pc' = "model"
  /\ job_id' = generate_job_id
  /\ upload_dir' = IF input_type = "file" THEN upload_dir \cup {job_id'} ELSE upload_dir
  /\ UNCHANGED <<kind, input_type, response_text, members, text, parsed_data, raw_data,
                 warnings, aggregate, response, jobs_storage, now, request>>

\* an upload with an unsupported extension or too large a file: HTTP 400
RejectUpload ==
  /\ pc = "start"
  /\ input_type = "file"
  /\ pc' = "done"
  /\ response' = [http |-> 400, success |-> FALSE, status |-> "none", error |-> "upload"]
  /\ UNCHANGED <<kind, input_type, response_text, members, text, parsed_data, raw_data,
                 warnings, aggregate, jobs_storage, upload_dir>>
  /\ UNCHANGED <<job_id, now, request>>

\* a failure path that records the failed job in the store
ModelCallFailsStored ==
  /\ pc = "model"
  /\ pc' = "done"
  /\ response' = [http |-> 200, success |-> FALSE, status |-> FailedStatus, error |-> "model"]
  /\ jobs_storage' = jobs_storage \cup {[job_id |-> job_id, input_type |-> input_type,
                                          status |-> FailedStatus, data |-> aggregate,
                                          raw_response |-> RawResponse, updated |-> FALSE]}
  /\ UNCHANGED <<kind, input_type, response_text, members, text, parsed_data, raw_data,
                 warnings, aggregate, upload_dir>>
  /\ UNCHANGED <<job_id, now, request>>

\* the call to the model raises: the service returns success = False
ModelCallFails ==
  /\ pc = "model"
  /\ pc' = "done"
  /\ response' = [http |-> 200, success |-> FALSE, status |-> FailedStatus, error |-> "model"]
  /\ UNCHANGED <<kind, input_type, response_text, members, text, parsed_data, raw_data,
                 warnings, aggregate, jobs_storage, upload_dir>>
  /\ UNCHANGED <<job_id, now, request>>

\* the call to the model returns response_text
ModelCallReturns ==
  /\ pc = "model"
  /\ pc' = "extract"
  /\ UNCHANGED <<kind, input_type, response_text, members, text, parsed_data, raw_data,
                 warnings, aggregate, response, jobs_storage, upload_dir>>
  /\ UNCHANGED <<job_id, now, request>>

\* variant of ExtractJson: a text without an object sends the run back to the
\* model call
ExtractJsonRetry ==
  /\ pc = "extract"
  /\ text' = FenceStrip(Strip(response_text))
  /\ LET status == extract_json_from_response(response_text) IN
     /\ parsed_data' = [status |-> status,
                        data |-> IF status = "object" THEN members ELSE EmptyPayload(kind)]
     /\ pc' = IF status = "object" THEN "validate" ELSE "model"
  /\ UNCHANGED <<kind, input_type, response_text, members, raw_data,
                 warnings, aggregate, response, jobs_storage, upload_dir>>
  /\ UNCHANGED <<job_id, now, request>>

\* parsed_data = _extract_json_from_response(raw_response), then the
\* "if not parsed_data" test of the caller
ExtractJson ==
  /\ pc = "extract"
  /\ text' = FenceStrip(Strip(response_text))
  /\ LET status == extract_json_from_response(response_text) IN
     /\ parsed_data' = [status |-> status,
                        data |-> IF status = "object" THEN members ELSE EmptyPayload(kind)]
     /\ IF status = "object"
        THEN /\ pc' = "validate"
             /\ UNCHANGED response
        ELSE /\ pc' = "done"
             /\ response' = [http |-> 200, success |-> FALSE, status |-> FailedStatus,
                             error |-> "extract"]
  /\ UNCHANGED <<kind, input_type, response_text, members, raw_data,
                 warnings, aggregate, jobs_storage, upload_dir>>
  /\ UNCHANGED <<job_id, now, request>>

\* what the caller does with an exception: the invoice routes answer HTTP 500,
\* the order service returns success = False
ExceptionResponse ==
  IF kind = "invoice"
  THEN [http |-> 500, success |-> FALSE, status |-> "none", error |-> "exception"]
  ELSE [http |-> 200, success |-> FALSE, status |-> "error", error |-> "exception"]

\* validated_data = _validate_and_fix_numbers / _validate_order_data
Validate ==
  /\ pc = "validate"
  /\ LET r == IF kind = "invoice" THEN validate_and_fix_numbers(parsed_data.data)
              ELSE validate_order_data(parsed_data.data) IN
     /\ raw_data' = r.raw_data
     /\ warnings' = r.warnings
     /\ IF r.raised
        THEN pc' = "done" /\ response' = ExceptionResponse
        ELSE pc' = "convert" /\ UNCHANGED response
  /\ UNCHANGED <<kind, input_type, response_text, members, text, parsed_data,
                 aggregate, jobs_storage, upload_dir>>
  /\ UNCHANGED <<job_id, now, request>>

\* _convert_to_invoice_data / _convert_to_order_data
Convert ==
  /\ pc = "convert"
  /\ LET r == IF kind = "invoice" THEN convert_to_invoice_data(raw_data)
              ELSE convert_to_order_data(raw_data) IN
     IF r.raised
     THEN pc' = "done" /\ response' = ExceptionResponse /\ UNCHANGED aggregate
     ELSE pc' = "store" /\ aggregate' = r.data /\ UNCHANGED response
  /\ UNCHANGED <<kind, input_type, response_text, members, text, parsed_data, raw_data,
                 warnings, jobs_storage, upload_dir>>
  /\ UNCHANGED <<job_id, now, request>>

\* the routes store the job and answer with the aggregate
StoreJob ==
  /\ pc = "store"
  /\ pc' = "done"
  /\ jobs_storage' = {j \in jobs_storage : j.job_id # job_id}
                     \cup {[job_id |-> job_id, input_type |-> input_type,
                            status |-> "completed", data |-> aggregate,
                            raw_response |-> RawResponse, updated |-> FALSE]}
  /\ response' = [http |-> 200, success |-> TRUE, status |-> "completed", error |-> "none"]
  /\ UNCHANGED <<kind, input_type, response_text, members, text, parsed_data, raw_data,
                 warnings, aggregate, upload_dir>>
  /\ UNCHANGED <<job_id, now, request>>

Next ==
  \/ ReceiveRequest
  \/ RejectUpload
  \/ ModelCallFails
  \/ ModelCallReturns
  \/ ExtractJson
  \/ Validate
  \/ Convert
  \/ StoreJob

Spec == Init /\ [][Next]_vars

\* the extractor alone, on every text of at most MaxLen tokens
InitExtract ==
  /\ kind \in Kinds
  /\ input_type = "text"
  /\ pc = "extract"
  /\ response_text \in Texts \cup {FencedObject}
  /\ members = SamplePayload(kind)
  /\ text = <<>>
  /\ parsed_data = [status |-> "unset", data |-> EmptyPayload(kind)]
  /\ raw_data = EmptyPayload(kind)
  /\ warnings = <<>>
  /\ aggregate = NoAggregate
  /\ response = NoResponse
  /\ jobs_storage = {}
  /\ upload_dir = {}
  /\ job_id = 0
  /\ now = FirstDay
  /\ request = NoRequest

NextExtract == ExtractJson

SpecExtract == InitExtract /\ [][NextExtract]_vars

\* ---------------------------------------------------------------- service
\* The service as deployed: requests follow one another, the routes of the
\* job store are called between the steps of a run, and the clock advances.
\* Each store (jobs_storage of the invoice routes, order_jobs_storage of the
\* order routes) is read and written by the routes of its own kind only, so
\* a behaviour follows one of the two.

\* the number of requests that are given a job id
MaxJobs == 2

JobIds == 1..MaxJobs

\* what the model returns for the requests of the service: an object or a
\* text without one, and a payload that passes every check but carries no date
ServiceTexts == {BareObject, <<"x">>}
ServicePayloads(kd) ==
  {IF kd = "invoice" THEN [SamplePayload(kd) EXCEPT !.inv_date = Absent]
   ELSE [SamplePayload(kd) EXCEPT !.order_date = Absent]}

\* the record a client sends to the update routes: the aggregate it was
\* given, edited by hand
UpdatedData(data) ==
  [data EXCEPT !.needs_review = TRUE, !.review_notes = <<"edited by hand">>]

InitService ==
  /\ kind \in Kinds
  /\ input_type \in {"file", "text"}
  /\ pc = "start"
  /\ response_text \in ServiceTexts
  /\ members \in ServicePayloads(kind)
  /\ text = <<>>
  /\ parsed_data = [status |-> "unset", data |-> EmptyPayload(kind)]
  /\ raw_data = EmptyPayload(kind)
  /\ warnings = <<>>
  /\ aggregate = NoAggregate
  /\ response = NoResponse
  /\ jobs_storage = {}
  /\ upload_dir = {}
  /\ job_id = 0
  /\ now = FirstDay
  /\ request = NoRequest

\* the next request arrives: a new invocation with its own local variables
NewRequest ==
  /\ pc = "done"
  /\ job_id < MaxJobs
  /\ pc' = "start"
  /\ input_type' \in {"file", "text"}
  /\ response_text' \in ServiceTexts
  /\ members' \in ServicePayloads(kind)
  /\ text' = <<>>
  /\ parsed_data' = [status |-> "unset", data |-> EmptyPayload(kind)]
  /\ raw_data' = EmptyPayload(kind)
  /\ warnings' = <<>>
  /\ aggregate' = NoAggregate
  /\ response' = NoResponse
  /\ UNCHANGED <<kind, jobs_storage, upload_dir, job_id, now, request>>

\* midnight passes
Tick ==
  /\ now = FirstDay
  /\ now' = NextDay
  /\ UNCHANGED <<kind, input_type, pc, response_text, members, text, parsed_data,
                 raw_data, warnings, aggregate, response, jobs_storage, upload_dir,
                 job_id, request>>

\* the job ids of the store
StoredIds == {j.job_id : j \in jobs_storage}

\* jobs_storage[id]
JobOf(id) == CHOOSE j \in jobs_storage : j.job_id = id

\* the variables of the run in flight
runVars == <<kind, input_type, pc, response_text, members, text, parsed_data,
             raw_data, warnings, aggregate, response, job_id, now>>

\* get_ocr_result / get_order_result
GetResult(id) ==
  /\ request' = [op |-> "get", job_id |-> id,
                 http |-> IF id \in StoredIds THEN 200 ELSE 404]
  /\ UNCHANGED <<jobs_storage, upload_dir>>
  /\ UNCHANGED runVars

\* update_invoice_data / update_order_data: the record of the job is replaced
\* by the one sent, and the job is marked as updated (updated_at, update_notes)
UpdateData(id) ==
  /\ IF id \in StoredIds
     THEN /\ jobs_storage' = (jobs_storage \ {JobOf(id)})
                             \cup {[JobOf(id) EXCEPT !.data = UpdatedData(@), !.updated = TRUE]}
          /\ request' = [op |-> "update", job_id |-> id, http |-> 200]
     ELSE /\ UNCHANGED jobs_storage
          /\ request' = [op |-> "update", job_id |-> id, http |-> 404]
  /\ UNCHANGED upload_dir
  /\ UNCHANGED runVars

\* list_jobs / list_order_jobs
ListJobs ==
  /\ request' = [op |-> "list", job_id |-> 0, http |-> 200]
  /\ UNCHANGED <<jobs_storage, upload_dir>>
  /\ UNCHANGED runVars

\* get_order_stats
GetStats ==
  /\ kind = "order"
  /\ request' = [op |-> "stats", job_id |-> 0, http |-> 200]
  /\ UNCHANGED <<jobs_storage, upload_dir>>
  /\ UNCHANGED runVars

\* a delete that answers 200 whether or not the job is in the store
DeleteJobLenient(id) ==
  /\ upload_dir' = IF id \in StoredIds /\ JobOf(id).input_type = "file"
                   THEN upload_dir \ {id} ELSE upload_dir
  /\ jobs_storage' = {j \in jobs_storage : j.job_id # id}
  /\ request' = [op |-> "delete", job_id |-> id, http |-> 200]
  /\ UNCHANGED runVars

\* delete_job / delete_order_job: the file of the job, when it has one, is
\* unlinked and the job leaves the store
DeleteJob(id) ==
  /\ IF id \in StoredIds
     THEN /\ upload_dir' = IF JobOf(id).input_type = "file" THEN upload_dir \ {id}
                           ELSE upload_dir
          /\ jobs_storage' = jobs_storage \ {JobOf(id)}
          /\ request' = [op |-> "delete", job_id |-> id, http |-> 200]
     ELSE /\ UNCHANGED <<jobs_storage, upload_dir>>
          /\ request' = [op |-> "delete", job_id |-> id, http |-> 404]
  /\ UNCHANGED runVars

\* export_to_amis / export_order_to_json / export_order_to_excel: the export
\* file is written from the stored aggregate
ExportJob(id) ==
  /\ request' = [op |-> "export", job_id |-> id,
                 http |-> IF id \in StoredIds THEN 200 ELSE 404]
  /\ UNCHANGED <<jobs_storage, upload_dir>>
  /\ UNCHANGED runVars

NextService ==
  \/ Next
  \/ NewRequest
  \/ Tick
  \/ \E id \in JobIds : GetResult(id)
  \/ \E id \in JobIds : UpdateData(id)
  \/ ListJobs
  \/ GetStats
  \/ \E id \in JobIds : DeleteJob(id)
  \/ \E id \in JobIds : ExportJob(id)

SpecService == InitService /\ [][NextService]_vars

\* ------------------------------------------------------------ properties
\* the extraction step has run
Extracted == parsed_data.status # "unset"

\* the run produced an aggregate
Assembled == pc = "store" \/ (pc = "done" /\ response.status = "completed")

\* validation has run and returned, and the run has not failed since
Validated == pc \in {"convert", "store"} \/ (pc = "done" /\ response.status = "completed")

\* s is the text of one JSON object: braces around whitespace and at most one
\* members text
IsJsonObjectText(s) ==
  /\ Len(s) >= 2
  /\ s[1] = "{"
  /\ s[Len(s)] = "}"
  /\ \A k \in 2..(Len(s) - 1) : s[k] \in {"nl", "m"}
  /\ Cardinality({k \in 2..(Len(s) - 1) : s[k] = "m"}) <= 1

ObjectAt(s, i, j) == i <= j /\ IsJsonObjectText(SubSeq(s, i, j))

\* what the extractor returns for the object text s[i..j]
StatusOfObject(s, i, j) ==
  IF \E k \in i..j : s[k] = "m" THEN "object" ELSE "empty"

NlIdx(s) == {k \in 1..Len(s) : s[k] = "nl"}
MinOf(S) == CHOOSE a \in S : \A b \in S : a <= b
MaxOf(S) == CHOOSE a \in S : \A b \in S : a >= b

\* C5: the extractor returns a parsed object exactly when the fence-stripped
\* text has a "{" and a "}" and the substring from the first "{" to the last
\* "}" inclusive is valid JSON; in every other case it returns not-found, and
\* what it returns is the object of exactly that substring.
C5_ExtractIffBraceSubstringParses ==
  Extracted =>
    LET cand == {ij \in (1..Len(text)) \X (1..Len(text)) :
                   /\ text[ij[1]] = "{" /\ \A k \in 1..(ij[1] - 1) : text[k] # "{"
                   /\ text[ij[2]] = "}" /\ \A k \in (ij[2] + 1)..Len(text) : text[k] # "}"}
    IN /\ (parsed_data.status # "none")
            <=> (\E ij \in cand : ObjectAt(text, ij[1], ij[2]))
       /\ \A ij \in cand :
            ObjectAt(text, ij[1], ij[2])
              => parsed_data.status = StatusOfObject(text, ij[1], ij[2])
       /\ parsed_data.data = (IF parsed_data.status = "object" THEN members
                              ELSE EmptyPayload(kind))

\* an object is returned from a text with prose before it
C5_Witness ==
  /\ parsed_data.status = "object"
  /\ text # <<>>
  /\ text[1] = "x"

\* C6 as stated: whenever the raw text holds exactly one well-formed JSON
\* object, whatever surrounds it, the extractor returns that object.
C6_Original ==
  Extracted =>
    \A i, j \in 1..Len(response_text) :
      (/\ ObjectAt(response_text, i, j)
       /\ \A i2, j2 \in 1..Len(response_text) :
            ObjectAt(response_text, i2, j2) => (i2 = i /\ j2 = j))
      => parsed_data.status = StatusOfObject(response_text, i, j)

\* C6 amended: the extractor returns the one well-formed JSON object of the
\* raw text when the surrounding prose holds no "{" or "}" and, if the
\* trimmed text starts with a fence and has more than two lines, the object
\* lies wholly between the first and the last line.
C6_ObjectInBraceFreeProse ==
  Extracted =>
    LET s == Strip(response_text) IN
    \A i, j \in 1..Len(s) :
      (/\ ObjectAt(s, i, j)
       /\ \A k \in (1..Len(s)) \ (i..j) : s[k] \notin {"{", "}"}
       /\ (StartsWithFence(s) /\ Cardinality(NlIdx(s)) >= 2)
            => (MinOf(NlIdx(s)) < i /\ j < MaxOf(NlIdx(s))))
      => /\ parsed_data.status = StatusOfObject(s, i, j)
         /\ parsed_data.status = "object" => parsed_data.data = members

\* an object is returned from between two pieces of prose
C6_Witness ==
  /\ parsed_data.status = "object"
  /\ response_text[1] = "x"
  /\ response_text[Len(response_text)] = "x"

\* C7: when the trimmed text starts with a fence, the brace search runs on
\* the text without its first and last line if it has more than two lines and
\* on the whole trimmed text otherwise; a fenced object is returned.
C7_FenceLinesRemoved ==
  Extracted =>
    LET s == Strip(response_text) IN
    /\ StartsWithFence(s) =>
         text = (IF Cardinality(NlIdx(s)) >= 2
                 THEN SubSeq(s, MinOf(NlIdx(s)) + 1, MaxOf(NlIdx(s)) - 1)
                 ELSE s)
    /\ response_text = FencedObject =>
         (parsed_data.status = "object" /\ parsed_data.data = members)

\* the fenced object of three lines has been extracted
C7_Witness ==
  /\ response_text = FencedObject
  /\ text = <<"{", "m", "}">>
  /\ parsed_data.status = "object"

\* the tolerance of the pipeline of this run, in hundredths
ToleranceHundredths ==
  IF kind = "invoice" THEN InvoiceToleranceHundredths ELSE OrderToleranceHundredths

\* the declared total of a raw line item
DeclaredTotal(item) == IF kind = "invoice" THEN item.amount ELSE item.total_price

\* a raw value that is present and reads as a number
IsNumeric(v) == v.k \in {"num", "str"} /\ ParseDecimal(v).ok

\* the line items of the aggregate
Lines == IF kind = "invoice" THEN aggregate.original_invoice_detail ELSE aggregate.items

\* the texts of the warnings, in the order produced
RECURSIVE WarningTexts(_)
WarningTexts(ws) == IF ws = <<>> THEN <<>> ELSE <<Head(ws).w>> \o WarningTexts(Tail(ws))

\* a occurs in b as a subsequence, order kept
RECURSIVE IsSubSeq(_, _)
IsSubSeq(a, b) ==
  IF a = <<>> THEN TRUE
  ELSE IF b = <<>> THEN FALSE
  ELSE IF Head(a) = Head(b) THEN IsSubSeq(Tail(a), Tail(b))
  ELSE IsSubSeq(a, Tail(b))

\* C1: an invoice whose normalized subtotal + tax differs from the grand
\* total by more than the tolerance is assembled with needs_review = true and
\* with the three normalized values unmodified.
C1_TotalsMismatchFlagged ==
  (kind = "invoice" /\ Assembled) =>
    LET p   == parsed_data.data
        sub == safe_decimal_invoice(GetOrZero(p.total_amount_without_vat))
        tax == safe_decimal_invoice(GetOrZero(p.total_vat_amount))
        tot == safe_decimal_invoice(GetOrZero(p.total_amount))
    IN Abs(sub + tax - tot) * 100 > InvoiceToleranceHundredths
         => /\ aggregate.needs_review
            /\ aggregate.total_amount_without_vat = sub
            /\ aggregate.total_vat_amount = tax
            /\ aggregate.total_amount = tot

\* C2: in both pipelines, a line item with numeric quantity, unit price and
\* declared total (a declared total of 0 included) whose quantity x unit
\* price differs from the declared total by more than the tolerance has its
\* total overwritten with quantity x unit price, quantity and unit price
\* left as given, and exactly one mismatch warning names its line index.
C2_LineTotalOverwritten ==
  (Validated /\ parsed_data.data.items.k = "list") =>
    \A idx \in 1..Len(parsed_data.data.items.v) :
      LET item == parsed_data.data.items.v[idx]
          out  == raw_data.items.v[idx]
          q    == ParseDecimal(item.quantity).v
          up   == ParseDecimal(item.unit_price).v
          tot  == ParseDecimal(DeclaredTotal(item)).v
      IN (/\ item.dict
          /\ IsNumeric(item.quantity)
          /\ IsNumeric(item.unit_price)
          /\ IsNumeric(DeclaredTotal(item))
          /\ Abs(q * up - tot) * 100 > ToleranceHundredths)
         => /\ IsNumeric(DeclaredTotal(out))
            /\ ParseDecimal(DeclaredTotal(out)).v = q * up
            /\ out.quantity = item.quantity
            /\ out.unit_price = item.unit_price
            /\ Cardinality({k \in 1..Len(warnings) :
                              /\ warnings[k].n = idx
                              /\ warnings[k].w \in {"item amount mismatch",
                                                    "item total mismatch"}}) = 1

\* C3: every line item of an assembled aggregate has quantity x unit price
\* within the tolerance of its line total, or the aggregate is flagged.
C3_LinesConsistentOrFlagged ==
  Assembled =>
    \A idx \in 1..Len(Lines) :
      LET line == Lines[idx] IN
      IF kind = "invoice"
      THEN \/ Abs(line.quantity * line.unit_price - line.amount) * 100
                <= InvoiceToleranceHundredths
           \/ aggregate.needs_review
      ELSE \/ line.unit_price.none
           \/ line.total_price.none
           \/ Abs(line.quantity.v * line.unit_price.v - line.total_price.v) * 100
                <= OrderToleranceHundredths
           \/ aggregate.needs_review

\* C4: a raw text holding the empty object {} is parsed-but-empty: the run
\* goes on to normalization and ends with an assembled all-default aggregate.
C4_EmptyObjectAssembled ==
  (pc = "done" /\ parsed_data.status = "empty") => response.status = "completed"

\* C8: once extraction has produced a JSON object the run always ends with
\* an assembled aggregate, whatever keys are absent, null or misshapen.
C8_ObjectAlwaysAssembled ==
  (pc = "done" /\ parsed_data.status = "object") => response.status = "completed"

\* a non-fatal anomaly met by the run: a value that could not be coerced, a
\* tax identifier of invalid length, or a dropped line item
Anomaly ==
  \/ \E k \in 1..Len(warnings) :
       warnings[k].w \in {"invalid tax code", "item validate error",
                          "totals validate error"}
  \/ raw_data.items.k = "list" /\ Len(Lines) < Len(raw_data.items.v)

\* C9: an aggregate assembled by a run that met a non-fatal anomaly has
\* needs_review = true and a non-empty review_notes.
C9_AnomalyFlagged ==
  (Assembled /\ Anomaly) => (aggregate.needs_review /\ aggregate.review_notes # <<>>)

\* C10: review_notes of the assembled aggregate holds every warning produced,
\* in the order produced, and still holds the note supplied in the payload.
C10_NotesKeepWarnings ==
  Assembled =>
    /\ IsSubSeq(WarningTexts(warnings), aggregate.review_notes)
    /\ IsSubSeq(parsed_data.data.review_notes, aggregate.review_notes)

\* the payload the run extracted
Payload == parsed_data.data

\* the digits of a raw value, none for a value that is None, empty or missing
CleanedDigits(v) == IF Truthy(v) THEN DigitsOf(PyStr(v)) ELSE <<>>

\* seller and buyer tax identifiers are both non-null and equal
TaxCollision ==
  /\ CleanedDigits(Payload.seller_tax_code) # <<>>
  /\ CleanedDigits(Payload.seller_tax_code) = CleanedDigits(Payload.buyer_tax_code)

\* the phone number is given and its number of digits is not 10 or 11
InvalidPhoneLength ==
  /\ Truthy(Payload.customer_phone)
  /\ Len(CleanedDigits(Payload.customer_phone)) \notin PhoneMinLen..PhoneMaxLen

\* some line has a quantity below zero
NegativeQuantity ==
  /\ Payload.items.k = "list"
  /\ \E idx \in 1..Len(Payload.items.v) :
       LET item == Payload.items.v[idx] IN
       item.dict /\ IsNumeric(item.quantity) /\ ParseDecimal(item.quantity).v < 0

NameMissing == ~Truthy(Payload.customer_name)
PhoneMissing == CleanedDigits(Payload.customer_phone) = <<>>

\* some check of the pipeline raises its flag on the payload
CheckFlag ==
  IF kind = "invoice" THEN TaxCollision
  ELSE InvalidPhoneLength \/ NegativeQuantity \/ NameMissing \/ PhoneMissing

FieldAbsent(v) == v.k \in {"absent", "null"} \/ v.s = <<>>

\* note is one of the review notes of the aggregate
HasNote(note) ==
  \E i \in 1..Len(aggregate.review_notes) : aggregate.review_notes[i] = note

\* C13 as stated: an order whose customer_name or customer_phone is missing,
\* null or empty is assembled with needs_review = true and one missing-field
\* note per absent field; when both are given the rule adds no note.
C13_Original ==
  (kind = "order" /\ Assembled) =>
    LET no_name  == FieldAbsent(Payload.customer_name)
        no_phone == FieldAbsent(Payload.customer_phone)
    IN /\ (no_name \/ no_phone) => aggregate.needs_review
       /\ HasNote("missing customer name") = no_name
       /\ HasNote("missing phone number") = no_phone

\* C13, amended: the phone also counts as absent when it holds no digit.  An
\* order with an absent customer_name or customer_phone is assembled with
\* needs_review = true and review_notes made of one missing-field note per
\* absent field; otherwise review_notes is the payload's own.
C13_MissingFieldNoted ==
  (kind = "order" /\ Assembled) =>
    /\ NameMissing = FieldAbsent(Payload.customer_name)
    /\ (NameMissing \/ PhoneMissing) => aggregate.needs_review
    /\ aggregate.review_notes =
         IF NameMissing \/ PhoneMissing
         THEN (IF NameMissing THEN <<"missing customer name">> ELSE <<>>)
              \o (IF PhoneMissing THEN <<"missing phone number">> ELSE <<>>)
         ELSE Payload.review_notes

\* Scenario E: neither customer_name nor customer_phone is given
C13_Witness ==
  /\ kind = "order" /\ Assembled
  /\ FieldAbsent(Payload.customer_name) /\ FieldAbsent(Payload.customer_phone)
  /\ Payload.needs_review = "false"
  /\ aggregate.needs_review
  /\ aggregate.review_notes = <<"missing customer name", "missing phone number">>

\* the plain number written by a string of digits, grouping separators and
\* a currency sign
PlainNumber(chars) == DigitsToNat(DigitsOf(chars))

\* the grand total of the aggregate, when it has one
AggregateTotal ==
  IF kind = "invoice" THEN Some(aggregate.total_amount) ELSE aggregate.total_amount

\* the line total of a line of the aggregate, when it has one
LineTotal(line) == IF kind = "invoice" THEN Some(line.amount) ELSE line.total_price

\* C14: a total or a line amount written with grouping separators and a
\* currency sign, such as 1.000.000 followed by the dong sign, is assembled
\* as its plain number, 1000000.
C14_GroupedAmountNormalized ==
  Assembled =>
    /\ Payload.total_amount = Str(Grouped)
         => AggregateTotal = Some(PlainNumber(Grouped))
    /\ Payload.items.k = "list" =>
         \A idx \in 1..Len(Payload.items.v) :
           DeclaredTotal(Payload.items.v[idx]) = Str(Grouped)
             => \E k \in 1..Len(Lines) :
                  /\ Lines[k].line_number = idx
                  /\ LineTotal(Lines[k]) = Some(PlainNumber(Grouped))

\* the tax identifier given in the payload as raw, assembled as out, is
\* normalized: digits only, kept whatever its length, with a warning when
\* the number of digits is not in 10..13
TaxIdNormalized(raw, out) ==
  Truthy(raw) =>
    LET digits == DigitsOf(PyStr(raw)) IN
    /\ out = Str(digits)
    /\ Len(digits) \notin TaxCodeMinLen..TaxCodeMaxLen
         => \E k \in 1..Len(warnings) :
              warnings[k] = Warning("invalid tax code", Len(digits))

\* C15: every non-empty tax identifier of a payload is assembled as its
\* digits in their order; outside 10..13 digits it is kept and a warning is
\* recorded.
C15_TaxIdDigitsOnly ==
  Assembled =>
    IF kind = "invoice"
    THEN /\ TaxIdNormalized(Payload.seller_tax_code, aggregate.seller_tax_code)
         /\ TaxIdNormalized(Payload.buyer_tax_code, aggregate.buyer_tax_code)
    ELSE TaxIdNormalized(Payload.customer_tax_code, aggregate.customer_tax_code)

\* the phone number given in the payload as raw, assembled as out, is
\* normalized: digits only, kept whatever its length, and flagged for review
\* when the number of digits is not 10 or 11
PhoneNormalized(raw, out) ==
  Truthy(raw) =>
    LET digits == DigitsOf(PyStr(raw)) IN
    /\ out = Str(digits)
    /\ Len(digits) \notin PhoneMinLen..PhoneMaxLen => aggregate.needs_review

\* C16: every non-empty phone number of a payload is assembled as its digits
\* in their order; outside 10..11 digits it is flagged for review and kept.
C16_PhoneDigitsOnly ==
  Assembled =>
    IF kind = "invoice"
    THEN PhoneNormalized(Payload.buyer_phone_number, aggregate.buyer_phone_number)
    ELSE PhoneNormalized(Payload.customer_phone, aggregate.customer_phone)

\* the date field of the payload and the date of the aggregate
PayloadDate == IF kind = "invoice" THEN Payload.inv_date ELSE Payload.order_date
AggregateDate == IF kind = "invoice" THEN aggregate.inv_date ELSE aggregate.order_date

\* the fallback of each pipeline: the current date for invoices, null for
\* orders
FallbackDate == IF kind = "invoice" THEN Today ELSE NoDate

\* year, month and day name a day of the calendar
IsCalendarDay(y, m, d) == y >= 1 /\ m \in 1..12 /\ d \in 1..DaysInMonth(y, m)

\* s reads YYYY-MM-DD: ten characters, digits but for the two hyphens
IsPaddedDateText(s) ==
  /\ Len(s) = 10
  /\ \A i \in 1..10 : IF i \in {5, 8} THEN s[i] = "-" ELSE s[i] \in Digit

\* s reads as a year of four digits, a month and a day of one or two digits
\* each, joined by hyphens; j is the place of the second hyphen
IsDateTextAt(s, j) ==
  /\ j \in {7, 8} /\ Len(s) \in {j + 1, j + 2}
  /\ \A i \in 1..Len(s) : IF i \in {5, j} THEN s[i] = "-" ELSE s[i] \in Digit

\* the date written by such a text
DateAt(s, j) ==
  Date(DigitsToNat(SubSeq(s, 1, 4)), DigitsToNat(SubSeq(s, 6, j - 1)),
       DigitsToNat(SubSeq(s, j + 1, Len(s))))

\* the aggregate's date is the day written by s, with the second hyphen at j
ParsedAs(s, j) ==
  LET dt == DateAt(s, j) IN IsCalendarDay(dt.y, dt.m, dt.d) /\ AggregateDate = dt

\* C17 as stated: a date given as a valid YYYY-MM-DD string is parsed to
\* that date in both pipelines; any other value gives the current date for
\* an invoice and null for an order.
C17_Original ==
  Assembled =>
    IF /\ PayloadDate.k = "str"
       /\ IsPaddedDateText(PayloadDate.s)
       /\ LET dt == DateAt(PayloadDate.s, 8) IN IsCalendarDay(dt.y, dt.m, dt.d)
    THEN AggregateDate = DateAt(PayloadDate.s, 8)
    ELSE AggregateDate = FallbackDate

\* C17, amended: the month and the day may be written with one digit.  A
\* string of a four-digit year, a month and a day joined by hyphens that
\* names a calendar day is parsed to that day in both pipelines; any other
\* value gives the current date for an invoice and null for an order.
C17_DateParsedOrFallback ==
  Assembled =>
    IF /\ PayloadDate.k = "str"
       /\ \E j \in {7, 8} :
            /\ IsDateTextAt(PayloadDate.s, j)
            /\ LET dt == DateAt(PayloadDate.s, j) IN IsCalendarDay(dt.y, dt.m, dt.d)
    THEN \E j \in {7, 8} : IsDateTextAt(PayloadDate.s, j) /\ ParsedAs(PayloadDate.s, j)
    ELSE AggregateDate = FallbackDate

\* an order whose date is written day/month/year is assembled without a date
C17_Witness ==
  /\ kind = "order" /\ Assembled
  /\ Payload.order_date = Str(DateSlashes)
  /\ aggregate.order_date = NoDate

\* the run ended in an exception raised by validation or assembly
RaisedException == pc = "done" /\ response.error = "exception"

\* the line of the aggregate built from the payload's item at idx, as a set
LinesOf(idx) == {k \in 1..Len(Lines) : Lines[k].line_number = idx}

Constructible(item) ==
  /\ item.dict
  /\ kind = "invoice" =>
       /\ ParseDecimal(GetOrZero(item.quantity)).ok
       /\ ParseDecimal(GetOrZero(item.unit_price)).ok
       /\ ParseDecimal(GetOrZero(item.amount)).ok

RECURSIVE SumOfLineTotals(_)
SumOfLineTotals(ls) ==
  IF ls = <<>> THEN 0
  ELSE (IF LineTotal(Head(ls)).none THEN 0 ELSE LineTotal(Head(ls)).v)
       + SumOfLineTotals(Tail(ls))

\* the subtotal of the aggregate: the pre-tax total of an invoice, the
\* total of an order
Subtotal ==
  IF kind = "invoice" THEN Some(aggregate.total_amount_without_vat)
  ELSE aggregate.total_amount

\* C20: when the sum of the line totals of an assembled aggregate differs
\* from its subtotal by more than the tolerance, the discrepancy is reported:
\* a warning names it or the aggregate is flagged for review.
C20_LineSumChecked ==
  (Assembled /\ ~Subtotal.none
     /\ Abs(SumOfLineTotals(Lines) - Subtotal.v) * 100 > ToleranceHundredths)
    => \/ aggregate.needs_review
       \/ \E k \in 1..Len(warnings) : warnings[k].w = "line sum mismatch"

\* ------------------------------------------------------------ C21 .. C30

\* the position of a run in the pass: request, model call, extraction,
\* normalization and reconciliation, assembly, storing, finished
StageRank(p) ==
  CASE p = "start" -> 0
    [] p = "model" -> 1
    [] p = "extract" -> 2
    [] p = "validate" -> 3
    [] p = "convert" -> 4
    [] p = "store" -> 5
    [] p = "done" -> 6

\* the run went through the extractor
PipelineRan == parsed_data.status # "unset"

\* the terminal states of a run that went through the extractor
ExtractionFailed == pc = "done" /\ response.error = "extract"
AssemblyFailed == pc = "done" /\ response.error = "exception"
AssembledTerminal == pc = "done" /\ response.status = "completed"

\* the number of terminal states the run is in
TerminalCount ==
  (IF ExtractionFailed THEN 1 ELSE 0) + (IF AssemblyFailed THEN 1 ELSE 0)
    + (IF AssembledTerminal THEN 1 ELSE 0)

\* a step of the run that reports a failure
FailureReported == response'.error # "none" /\ response.error = "none"

\* C21: a run is one linear pass: every step moves to a later stage, so no
\* stage is entered twice and nothing is retried; a finished run that went
\* through the extractor is in exactly one of Assembled, ExtractionFailed,
\* AssemblyFailed; a finished run takes no further step; and a step that
\* reports a failure finishes the run.
C21_SingleLinearPass ==
  /\ []((pc = "done" /\ PipelineRan) => TerminalCount = 1)
  /\ [][/\ StageRank(pc') > StageRank(pc)
        /\ pc # "done"
        /\ (FailureReported => pc' = "done")]_vars

C21_Witness == AssemblyFailed /\ PipelineRan /\ raw_data # EmptyPayload(kind)

\* the normalization and reconciliation step of the pipeline of the run
Normalize(raw) ==
  IF kind = "invoice" THEN validate_and_fix_numbers(raw) ELSE validate_order_data(raw)

\* C22: normalization is idempotent: applying _validate_and_fix_numbers or
\* _validate_order_data to the field map it returned returns that same field
\* map (tax codes, phone, line totals, needs_review, review_notes) and does
\* not raise.
C22_NormalizationIdempotent ==
  Validated => /\ ~Normalize(raw_data).raised
               /\ Normalize(raw_data).raw_data = raw_data

C22_Witness == Validated /\ Payload.items.k = "list" /\ raw_data.items # Payload.items

\* n written with at least width digits
RECURSIVE ZeroPad(_, _)
ZeroPad(s, width) == IF Len(s) >= width THEN s ELSE ZeroPad(<<"0">> \o s, width)

\* date.isoformat(): YYYY-MM-DD
isoformat(d) ==
  ZeroPad(NatToDigits(d.y), 4) \o <<"-">> \o ZeroPad(NatToDigits(d.m), 2)
    \o <<"-">> \o ZeroPad(NatToDigits(d.d), 2)

\* the JSON value of a Decimal field, and of an optional one
DumpDecimal(n) == Num(DecimalStr(n))
DumpOptionalDecimal(d) == IF d.none THEN Null ELSE Num(DecimalStr(d.v))

\* the JSON value of a bool field
DumpBool(b) == IF b THEN "true" ELSE "false"

\* the JSON objects of the InvoiceDetailItem lines, under their field names
RECURSIVE DumpInvoiceLines(_)
DumpInvoiceLines(ls) ==
  IF ls = <<>> THEN <<>>
  ELSE <<[line_number |-> DumpDecimal(Head(ls).line_number),
          quantity |-> DumpDecimal(Head(ls).quantity),
          unit_price |-> DumpDecimal(Head(ls).unit_price),
          amount |-> DumpDecimal(Head(ls).amount),
          vat_rate_name |-> Head(ls).vat_rate_name]>> \o DumpInvoiceLines(Tail(ls))

\* the JSON object of an InvoiceData, under its field names
DumpInvoice(data) ==
  [seller_tax_code |-> data.seller_tax_code,
   buyer_tax_code |-> data.buyer_tax_code,
   original_invoice_detail |-> DumpInvoiceLines(data.original_invoice_detail),
   total_amount_without_vat |-> DumpDecimal(data.total_amount_without_vat),
   total_vat_amount |-> DumpDecimal(data.total_vat_amount),
   total_amount |-> DumpDecimal(data.total_amount),
   inv_series |-> data.inv_series,
   inv_date |-> Str(isoformat(data.inv_date)),
   payment_method_name |-> data.payment_method_name,
   buyer_phone_number |-> data.buyer_phone_number,
   needs_review |-> DumpBool(data.needs_review),
   review_notes |-> data.review_notes]

\* the JSON objects of the OrderItemData lines, under their field names
RECURSIVE DumpOrderLines(_)
DumpOrderLines(ls) ==
  IF ls = <<>> THEN <<>>
  ELSE <<[line_number |-> DumpDecimal(Head(ls).line_number),
          quantity |-> DumpOptionalDecimal(Head(ls).quantity),
          unit_price |-> DumpOptionalDecimal(Head(ls).unit_price),
          total_price |-> DumpOptionalDecimal(Head(ls).total_price)]>>
       \o DumpOrderLines(Tail(ls))

\* the JSON object of an OrderData, under its field names
DumpOrder(data) ==
  [customer_name |-> data.customer_name,
   customer_phone |-> data.customer_phone,
   items |-> DumpOrderLines(data.items),
   total_amount |-> DumpOptionalDecimal(data.total_amount),
   customer_tax_code |-> data.customer_tax_code,
   order_date |-> IF data.order_date = NoDate THEN Null
                  ELSE Str(isoformat(data.order_date)),
   needs_review |-> DumpBool(data.needs_review),
   review_notes |-> data.review_notes]

\* d.get(key) on a JSON object: the value under the key, Absent without it
DictGet(d, key) == IF key \in DOMAIN d THEN d[key] ELSE Absent

\* the keys the invoice functions read from an item, and from an order item
InvoiceItemKeys == {"quantity", "unit_price", "amount", "vat_rate"}
OrderItemKeys ==
  {"quantity", "unit_price", "total_price", "line_number", "product_code", "code",
   "unit", "uom"}

\* a JSON object as the item loops read it: the keys they look up
ReadItem(j, keys) == [f \in keys \cup {"dict"} |-> IF f = "dict" THEN TRUE ELSE DictGet(j, f)]

\* the value under the key "items" of a JSON object, as the loops read it
ReadItems(d, keys) ==
  IF "items" \in DOMAIN d
  THEN [k |-> "list", v |-> [i \in 1..Len(d.items) |-> ReadItem(d.items[i], keys)]]
  ELSE [k |-> "absent", v |-> <<>>]

\* a JSON object as the invoice functions read it
ReadInvoice(d) ==
  [seller_tax_code |-> DictGet(d, "seller_tax_code"),
   buyer_tax_code |-> DictGet(d, "buyer_tax_code"),
   items |-> ReadItems(d, InvoiceItemKeys),
   total_amount_without_vat |-> DictGet(d, "total_amount_without_vat"),
   total_vat_amount |-> DictGet(d, "total_vat_amount"),
   total_amount |-> DictGet(d, "total_amount"),
   inv_series |-> DictGet(d, "inv_series"),
   inv_date |-> DictGet(d, "inv_date"),
   payment_method_name |-> DictGet(d, "payment_method_name"),
   buyer_phone_number |-> DictGet(d, "buyer_phone_number"),
   needs_review |-> IF "needs_review" \in DOMAIN d THEN d.needs_review ELSE "absent",
   review_notes |-> IF "review_notes" \in DOMAIN d THEN d.review_notes ELSE <<>>]

\* a JSON object as the order functions read it
ReadOrder(d) ==
  [customer_name |-> DictGet(d, "customer_name"),
   customer_phone |-> DictGet(d, "customer_phone"),
   items |-> ReadItems(d, OrderItemKeys),
   total_amount |-> DictGet(d, "total_amount"),
   customer_tax_code |-> DictGet(d, "customer_tax_code"),
   order_date |-> DictGet(d, "order_date"),
   needs_review |-> IF "needs_review" \in DOMAIN d THEN d.needs_review ELSE "absent",
   review_notes |-> IF "review_notes" \in DOMAIN d THEN d.review_notes ELSE <<>>]

\* the aggregate of the run serialized to its JSON field map and read back
\* as a payload
Serialized ==
  IF kind = "invoice" THEN ReadInvoice(DumpInvoice(aggregate))
  ELSE ReadOrder(DumpOrder(aggregate))

\* normalization, reconciliation and assembly of a field map
Reassemble(raw) ==
  LET n == Normalize(raw)
      c == IF kind = "invoice" THEN convert_to_invoice_data(n.raw_data)
           ELSE convert_to_order_data(n.raw_data)
  IN [raised |-> n.raised \/ c.raised, data |-> c.data]

\* C23: round trip: serializing an assembled aggregate to its JSON field map
\* and running normalization, reconciliation and assembly on that map yields
\* an aggregate identical to the original.
C23_RoundTrip ==
  Assembled => /\ ~Reassemble(Serialized).raised
               /\ Reassemble(Serialized).data = aggregate

\* the round trip of order aggregates alone
C23_OrderRoundTrip == kind = "order" => C23_RoundTrip

\* C24: the engine is pure and stateless: the aggregate it produces depends
\* only on its input, so two invocations on the same input produce the same
\* aggregate: the aggregate of the run in flight equals the aggregate stored,
\* and not updated since, for every earlier run on the same raw response.
C24_SameInputSameAggregate ==
  Assembled =>
    \A j \in jobs_storage :
      (j.raw_response = RawResponse /\ ~j.updated) => j.data = aggregate

\* the aggregate stored for a job
StoredData(id) == JobOf(id).data

\* C25: the aggregate stored for a job changes only through the update
\* operation on that job, which replaces it with the submitted record; get,
\* list, stats and export leave the store unchanged; and the steps that
\* process another input leave the aggregate of every existing job unchanged.
C25_AggregateChangesOnlyByUpdate ==
  [][/\ \A id \in JobIds :
          (id \in StoredIds /\ id \in StoredIds' /\ StoredData(id)' # StoredData(id))
            => /\ UpdateData(id)
               /\ StoredData(id)' = UpdatedData(StoredData(id))
     /\ \A id \in JobIds :
          (GetResult(id) \/ ListJobs \/ GetStats \/ ExportJob(id))
            => jobs_storage' = jobs_storage
     /\ Next => \A id \in StoredIds : id \in StoredIds' /\ StoredData(id)' = StoredData(id)]_vars

C25_Witness ==
  /\ request.op = "update" /\ request.http = 200
  /\ \E j \in jobs_storage : j.job_id = request.job_id /\ j.data.review_notes = <<"edited by hand">>
  /\ \E j \in jobs_storage : j.job_id # request.job_id /\ j.data.review_notes # <<"edited by hand">>

\* a raw value that is given but does not read as a number
UnreadableNumber(v) == v.k \in {"num", "str"} /\ v.s # <<>> /\ ~IsNumeric(v)

\* the default of an amount field: zero for an invoice, null for an order
DefaultAmount == IF kind = "invoice" THEN Some(0) ELSE NoneVal

\* C26: a total or a line amount whose raw value does not read as a number
\* is assembled as its default (zero or null), the review notes record the
\* fact, and the line item holding it is still part of the aggregate.
C26_UnreadableNumberDefaultedAndNoted ==
  Assembled =>
    /\ UnreadableNumber(Payload.total_amount)
         => AggregateTotal = DefaultAmount /\ aggregate.review_notes # <<>>
    /\ Payload.items.k = "list" =>
         \A idx \in 1..Len(Payload.items.v) :
           (Payload.items.v[idx].dict
              /\ UnreadableNumber(DeclaredTotal(Payload.items.v[idx])))
             => /\ \E k \in 1..Len(Lines) :
                     /\ Lines[k].line_number = idx
                     /\ LineTotal(Lines[k]) = DefaultAmount
                /\ aggregate.review_notes # <<>>

\* getattr(obj, name, default): the attribute when the object has it
GetAttr(obj, name, default) == IF name \in DOMAIN obj THEN obj[name] ELSE default

\* value or "": the value when it is truthy, else the empty string
OrEmpty(v) == IF Truthy(v) THEN v ELSE Str(<<>>)

\* the row _prepare_order_data_for_export builds for a line of the order
ExportItemRow(item) ==
  [item_no |-> item.line_number,
   product_code |-> OrEmpty(GetAttr(item, "product_code", Str(<<>>))),
   quantity |-> item.quantity,
   unit |-> OrEmpty(GetAttr(item, "unit", Str(<<>>))),
   unit_price |-> item.unit_price,
   total_price |-> item.total_price]

\* the product code and the unit an order line of the payload carries
PayloadProductCode(item) == FirstTruthy(item.product_code, item.code)
PayloadUnit(item) == FirstTruthy(item.unit, item.uom)

\* C27: for every order line of the payload that carries a product code
\* (product_code or code) and a unit (unit or uom), the assembled line and
\* the row the order export builds from it carry that product code and unit.
C27_ProductCodeAndUnitKept ==
  (kind = "order" /\ Assembled /\ Payload.items.k = "list") =>
    \A idx \in 1..Len(Payload.items.v) :
      LET item == Payload.items.v[idx] IN
      (item.dict /\ Truthy(PayloadProductCode(item)) /\ Truthy(PayloadUnit(item)))
        => \E k \in 1..Len(Lines) :
             /\ Lines[k].line_number = idx
             /\ GetAttr(Lines[k], "product_code", Null) = PayloadProductCode(item)
             /\ GetAttr(Lines[k], "unit", Null) = PayloadUnit(item)
             /\ ExportItemRow(Lines[k]).product_code = PayloadProductCode(item)
             /\ ExportItemRow(Lines[k]).unit = PayloadUnit(item)

\* the run in flight has ended after it was given a job id, without an
\* aggregate: the model call, the extraction or the assembly failed
RunFailed == pc = "done" /\ response.error \in {"model", "extract", "exception"}

\* d is an aggregate, not the None of a run without one
IsAggregate(d) == d # NoAggregate /\ "needs_review" \in DOMAIN d

\* C28 as stated: once a run has ended, its job id is in the job store if and
\* only if the run reached Assembled.
C28_Original ==
  (pc = "done" /\ job_id \in JobIds /\ response.error # "upload")
    => (job_id \in StoredIds <=> AssembledTerminal)

\* C28: a job id enters the job store only by the step with which its own run
\* reaches Assembled and leaves it only by a delete of that job; a run that
\* fails after it was given a job id never inserts it; and every stored job
\* has status "completed" and an aggregate that is not null.
C28_StoredIffAssembled ==
  /\ [](/\ \A j \in jobs_storage : j.status = "completed" /\ IsAggregate(j.data)
        /\ RunFailed => job_id \notin StoredIds
        /\ StoredIds \subseteq 1..job_id)
  /\ [][\A id \in JobIds :
          /\ (id \notin StoredIds /\ id \in StoredIds')
               => StoreJob /\ id = job_id /\ AssembledTerminal'
          /\ (id \in StoredIds /\ id \notin StoredIds') => DeleteJob(id)
          /\ (StoreJob /\ id = job_id) => id \in StoredIds']_vars

C28_Witness == RunFailed /\ job_id = 2 /\ StoredIds = {1} /\ response.http = 200

\* a step that is a get, an update, a delete or an export on the job id
StoreOperationOn(id) == GetResult(id) \/ UpdateData(id) \/ DeleteJob(id) \/ ExportJob(id)

\* the last store operation was a delete of the job id that succeeded
Deleted(id) == request = [op |-> "delete", job_id |-> id, http |-> 200]

\* C29: get, update, delete and export on a job id that is not in the job
\* store answer 404 and leave the store and the upload directory unchanged;
\* and after a successful delete the job stays absent, so that every later
\* operation on it is one on a missing job.
C29_MissingJobIs404 ==
  /\ [][\A id \in JobIds :
          (id \notin StoredIds /\ StoreOperationOn(id))
            => /\ request'.http = 404
               /\ request'.job_id = id
               /\ jobs_storage' = jobs_storage
               /\ upload_dir' = upload_dir]_vars
  /\ \A id \in JobIds : [](Deleted(id) => [](id \notin StoredIds))

C29_Witness ==
  /\ request = [op |-> "delete", job_id |-> job_id, http |-> 404]
  /\ AssembledTerminal


\* C30: once no upload request is in progress, every file saved in the upload
\* directory belongs to a job that is present in the job store, also when the
\* model call or the JSON extraction failed after the file had been saved.
C30_SavedFileBelongsToStoredJob ==
  pc = "done" => upload_dir \subseteq StoredIds

====
